---- MODULE Spec2Model ----
(***************************************************************************)
(* Call Report Analyzer (src/analzyer.py): the ingestion pipeline          *)
(* extract_data_from_excel and the "Analyze" button handler, as a state    *)
(* machine over one Streamlit session.                                     *)
(*                                                                         *)
(* Text of a callingPartyNumber cell is a sequence of one-character        *)
(* strings, so that the regular expression of line 66 is computed and not  *)
(* assumed.  Partition labels, user names and file names are strings.      *)
(***************************************************************************)
EXTENDS Integers, Sequences, FiniteSets, TLC

VARIABLES
    uploaded_files,   \* the file uploader's current selection (line 42)
    session_state,    \* st.session_state: a function, "df_all" in its domain once stored
    all_data,         \* the handler's list of per-file frames (line 97) at its end
    messages,         \* st.error / st.warning calls of the current script run, in order
    outcome           \* "idle": run without a click; "done": handler returned;
                      \* "raised": an exception left the handler

vars == <<uploaded_files, session_state, all_data, messages, outcome>>

----------------------------------------------------------------------------
(* Bounds of the checked inputs.                                           *)

\* longest callingPartyNumber text enumerated (SpecRow)
MaxLen == 5
\* most files in one upload (SpecBatch)
MaxFiles == 2
\* most rows in one sheet (SpecBatch)
MaxRows == 2

----------------------------------------------------------------------------
(* Cell values.                                                            *)

\* a missing label / number cell (pandas NaN) in a string-typed column
NaN == "NaN"
\* a missing callingPartyNumber cell or a failed str.extract: read_excel
\* never yields an empty string (an empty cell is NaN), so the empty
\* sequence is free to stand for the missing text
NoText == <<>>

Digits == {"0", "1", "2", "3", "4", "5", "6", "7", "8", "9"}

\* --- Extension mapping ---
ExtensionPairs ==
    { << <<"7","7","7","3">>, "AD" >>, << <<"7","7","8","9">>, "PF" >>,
      << <<"7","7","2","5">>, "CB" >>, << <<"7","7","2","9">>, "SM" >>,
      << <<"7","7","6","8">>, "CM" >>, << <<"7","7","2","2">>, "FF" >>,
      << <<"7","7","8","3">>, "TM" >>, << <<"7","7","6","9">>, "PB" >>,
      << <<"7","7","2","1">>, "KS" >>, << <<"7","7","8","7">>, "DK" >>,
      << <<"7","7","7","6">>, "DH" >>, << <<"7","7","7","9">>, "FM" >>,
      << <<"7","7","8","4">>, "MV" >> }

valid_extensions == { p[1] : p \in ExtensionPairs }

extension_name_map ==
    [ e \in valid_extensions |-> (CHOOSE p \in ExtensionPairs : p[1] = e)[2] ]

\* Series.map(dict): a key the dict lacks maps to NaN
map_user(ext) ==
    IF ext \in DOMAIN extension_name_map THEN extension_name_map[ext] ELSE NaN

\* the columns the pipeline reads
part_cols ==
    << "finalCalledPartyNumberPartition",
       "originalCalledPartyNumberPartition",
       "callingPartyNumberPartition" >>

RequiredColumns ==
    { "dateTimeConnect", "dateTimeDisconnect", "callingPartyNumber" }
    \cup { part_cols[i] : i \in 1..3 }

\* seconds substituted for the duration of a call whose connect time is 0
RepairSeconds == 600
\* digits of one extension, the {4} of the regular expression
ExtDigits == 4
\* seconds per minute, the divisor of "Call Duration (min)"
SecondsPerMinute == 60

----------------------------------------------------------------------------
(* Pure helpers of extract_data_from_excel.                                *)

\* str(col).strip() of a header: a header is <<padded, name>>
strip_header(h) == h[2]

\* DataFrame.bfill(axis=1) on one row of labels: every missing cell takes
\* the next non-missing value to its right
RECURSIVE bfill(_)
bfill(cells) ==
    IF Len(cells) <= 1 THEN cells
    ELSE LET rest == bfill(Tail(cells))
         IN  << (IF Head(cells) = NaN THEN Head(rest) ELSE Head(cells)) >> \o rest

\* a slip: the last column of a forward fill, the reverse priority
call_category_ffill_last(row) ==
    IF row.callingPartyNumberPartition # NaN THEN row.callingPartyNumberPartition
    ELSE IF row.originalCalledPartyNumberPartition # NaN
    THEN row.originalCalledPartyNumberPartition
    ELSE row.finalCalledPartyNumberPartition

\* df[part_cols].bfill(axis=1).iloc[:, 0]
call_category(row) ==
    bfill(<< row.finalCalledPartyNumberPartition,
             row.originalCalledPartyNumberPartition,
             row.callingPartyNumberPartition >>)[1]

\* Series.astype(str): a missing cell becomes the text "nan"
astype_str(cell) == IF cell = NoText THEN <<"n", "a", "n">> ELSE cell

\* Series.str.extract(r'(\d{4})')[0]: the leftmost four consecutive digits
str_extract(s) ==
    LET starts == { i \in 1..(Len(s) - ExtDigits + 1) :
                      \A k \in 0..(ExtDigits - 1) : s[i + k] \in Digits }
    IN  IF starts = {} THEN NoText
        ELSE LET i == CHOOSE a \in starts : \A b \in starts : a <= b
             IN  SubSeq(s, i, i + ExtDigits - 1)

\* a slip: the zero connect time is left as it is
repair_connect_skipped(connect, disconnect) == connect

\* line 56 under the mask of line 55
repair_connect(connect, disconnect) ==
    IF connect = 0 THEN disconnect - RepairSeconds ELSE connect

\* pd.to_datetime(seconds, unit='s'): the UTC calendar time of an epoch second
to_datetime(t) ==
    LET days == t \div 86400
        sod  == t % 86400
        z    == days + 719468
        era  == z \div 146097
        doe  == z - era * 146097
        yoe  == (doe - (doe \div 1460) + (doe \div 36524) - (doe \div 146096)) \div 365
        doy  == doe - (365 * yoe + (yoe \div 4) - (yoe \div 100))
        mp   == (5 * doy + 2) \div 153
        d    == doy - ((153 * mp + 2) \div 5) + 1
        m    == IF mp < 10 THEN mp + 3 ELSE mp - 9
        y    == yoe + era * 400 + (IF m <= 2 THEN 1 ELSE 0)
    IN  [ year |-> y, month |-> m, day |-> d,
          hour |-> sod \div 3600, minute |-> (sod % 3600) \div 60,
          second |-> sod % 60, epoch_day |-> days ]

\* Series.dt.to_period('M')
to_period_M(date) == << date.year, date.month >>

\* Series.dt.day_name(); 1970-01-01 was a Thursday
day_name(date) ==
    << "Monday", "Tuesday", "Wednesday", "Thursday", "Friday", "Saturday",
       "Sunday" >>[((date.epoch_day + 3) % 7) + 1]

\* a slip: a negative duration clamped to 0
call_duration_s_clamped(disconnect, connect) ==
    IF disconnect < connect THEN 0 ELSE disconnect - connect

\* line 77
call_duration_s(disconnect, connect) == disconnect - connect

\* line 78: the quotient as a fraction <<numerator, denominator>>
call_duration_min(seconds) == << seconds, SecondsPerMinute >>

----------------------------------------------------------------------------
(* extract_data_from_excel.                                                *)
(* A file is [name, workbook, header, rows]: workbook tells what           *)
(* pd.read_excel(sheet_name="Raw Data") meets, header is the set of raw    *)
(* column headers <<padded, name>>, rows the sheet's rows in order.        *)

NoException == [ type |-> "", arg |-> {} ]

KeyError(cols) == [ type |-> "KeyError", arg |-> cols ]

\* line 50: what read_excel raises on this upload, if anything
read_excel_exception(file) ==
    CASE file.workbook = "not_a_workbook" -> [ type |-> "BadZipFile", arg |-> {} ]
      [] file.workbook = "no_raw_data_sheet" -> [ type |-> "ValueError", arg |-> {} ]
      [] OTHER -> NoException

\* line 51
columns(file) == { strip_header(h) : h \in file.header }

\* lines 54-56: the frame after the connect-time repair
repair_rows(cols, rows) ==
    IF "dateTimeConnect" \in cols /\ "dateTimeDisconnect" \in cols
    THEN [ i \in 1..Len(rows) |->
             [ rows[i] EXCEPT !.dateTimeConnect =
                 repair_connect(rows[i].dateTimeConnect, rows[i].dateTimeDisconnect) ] ]
    ELSE rows

\* line 63: the rows with their "Call Category" column
categorize_rows(rows) ==
    [ i \in 1..Len(rows) |-> [ row |-> rows[i], category |-> call_category(rows[i]) ] ]

\* line 64: df.dropna(subset=["Call Category"])
dropna_category(tagged) ==
    LET present(t) == t.category # NaN
    IN  SelectSeq(tagged, present)

\* line 66
extract_extension(tagged) ==
    [ i \in 1..Len(tagged) |->
        [ row |-> tagged[i].row, category |-> tagged[i].category,
          extension |-> str_extract(astype_str(tagged[i].row.callingPartyNumber)) ] ]

\* a slip: the directory filter left out
filter_valid_extensions_omitted(tagged) == tagged

\* line 67: df[df["callingPartyNumber"].isin(valid_extensions)]
filter_valid_extensions(tagged) ==
    LET known(t) == t.extension \in valid_extensions
    IN  SelectSeq(tagged, known)

\* line 70: the "Date" of a row
row_date(t) == to_datetime(t.row.dateTimeConnect)

\* lines 80-88: the kept, renamed columns of one row
keep_cols(t, name, date, secs) ==
    [ User |-> map_user(t.extension),
      Extension |-> t.extension,
      Connect_Time_Unix |-> t.row.dateTimeConnect,
      Disconnect_Time_Unix |-> t.row.dateTimeDisconnect,
      Call_Category |-> t.category,
      Date |-> date,
      Month |-> to_period_M(date),
      Weekday |-> day_name(date),
      source_file |-> name,
      Call_Duration_s |-> secs,
      Call_Duration_min |-> call_duration_min(secs) ]

\* lines 68-88: one output row
output_row(t, name) ==
    keep_cols(t, name, row_date(t),
              call_duration_s(t.row.dateTimeDisconnect, t.row.dateTimeConnect))

\* the first exception lines 63-77 raise for a sheet lacking columns
missing_column_exception(cols) ==
    LET missing_parts == { part_cols[i] : i \in 1..3 } \ cols
    IN  CASE missing_parts # {} -> KeyError(missing_parts)
          [] "callingPartyNumber" \notin cols -> KeyError({"callingPartyNumber"})
          [] "dateTimeConnect" \notin cols -> KeyError({"dateTimeConnect"})
          [] "dateTimeDisconnect" \notin cols -> KeyError({"dateTimeDisconnect"})
          [] OTHER -> NoException

\* lines 68-88 over the rows line 67 kept
output_rows(kept, name) == [ i \in 1..Len(kept) |-> output_row(kept[i], name) ]

\* lines 53-90 for a sheet that was read and has every column
transform(file) ==
    output_rows(filter_valid_extensions(extract_extension(
                  dropna_category(categorize_rows(
                    repair_rows(columns(file), file.rows))))), file.name)

\* the exception the try's body ends with, if any
raised_exception(read_exc, column_exc) ==
    IF read_exc # NoException THEN read_exc ELSE column_exc

\* the try's result for the exception exc it ends with
body_result(exc, file) ==
    IF exc # NoException THEN [ exc |-> exc, df |-> <<>> ]
    ELSE [ exc |-> NoException, df |-> transform(file) ]

\* lines 50-90, the body of the try: [exc, df]
extract_body(file) ==
    body_result(raised_exception(read_excel_exception(file),
                                 missing_column_exception(columns(file))), file)

\* line 92
error_message(exc) ==
    [ level |-> "error", text |-> "Error reading Excel: ", detail |-> exc ]

\* a slip: `except ValueError`, which lets a KeyError leave the function
except_ValueError(r) ==
    IF r.exc = NoException
    THEN [ df |-> r.df, errors |-> <<>>, propagated |-> NoException ]
    ELSE IF r.exc.type = "ValueError"
    THEN [ df |-> <<>>, errors |-> << error_message(r.exc) >>,
           propagated |-> NoException ]
    ELSE [ df |-> <<>>, errors |-> <<>>, propagated |-> r.exc ]

\* lines 91-93, `except Exception as e`, on the result r of the try's body:
\* [df, errors, propagated]
except_Exception(r) ==
    IF r.exc # NoException
    THEN [ df |-> <<>>, errors |-> << error_message(r.exc) >>,
           propagated |-> NoException ]
    ELSE [ df |-> r.df, errors |-> <<>>, propagated |-> NoException ]

\* lines 48-93
extract_data_from_excel(file) == except_Exception(extract_body(file))

----------------------------------------------------------------------------
(* The "Analyze" button handler.                                           *)

NoValidDataWarning ==
    [ level |-> "warning", text |-> "No valid call data found in uploaded files.",
      detail |-> NoException ]

PleaseUploadWarning ==
    [ level |-> "warning", text |-> "Please upload at least one Excel file.",
      detail |-> NoException ]

\* line 100: DataFrame.empty
df_empty(df) == Len(df) = 0

\* lines 100-101 on the result r of the call of line 99
append_if_not_empty(acc, r) ==
    IF acc.propagated # NoException THEN acc
    ELSE [ all_data |-> IF r.propagated = NoException /\ ~df_empty(r.df)
                        THEN Append(acc.all_data, r.df) ELSE acc.all_data,
           messages |-> acc.messages \o r.errors,
           propagated |-> r.propagated ]

\* lines 98-101, one pass of the loop body for `file` on the accumulator
loop_step(acc, file) == append_if_not_empty(acc, extract_data_from_excel(file))

\* lines 97-101: the loop over the uploaded files
RECURSIVE loop_files(_, _)
loop_files(acc, files) ==
    IF files = <<>> THEN acc
    ELSE loop_files(loop_step(acc, Head(files)), Tail(files))

\* a slip: pd.concat(all_data).drop_duplicates()
RECURSIVE drop_duplicates(_, _)
drop_duplicates(seen, rows) ==
    IF rows = <<>> THEN seen
    ELSE IF \E k \in 1..Len(seen) : seen[k] = Head(rows)
    THEN drop_duplicates(seen, Tail(rows))
    ELSE drop_duplicates(Append(seen, Head(rows)), Tail(rows))

RECURSIVE concat_rows(_)
concat_rows(frames) ==
    IF frames = <<>> THEN <<>> ELSE Head(frames) \o concat_rows(Tail(frames))

concat_drop_duplicates(frames) == drop_duplicates(<<>>, concat_rows(frames))

\* line 103: pd.concat(all_data, ignore_index=True)
RECURSIVE concat(_)
concat(frames) ==
    IF frames = <<>> THEN <<>> ELSE Head(frames) \o concat(Tail(frames))

\* line 104: st.session_state["df_all"] = df_all
store_df_all(state, df) ==
    [ k \in (DOMAIN state) \cup {"df_all"} |-> IF k = "df_all" THEN df ELSE state[k] ]

\* a slip: the empty result reported with the warning of line 108
store_or_warn_please_upload(state, acc) ==
    IF acc.propagated # NoException
    THEN [ session_state |-> state, all_data |-> acc.all_data,
           messages |-> acc.messages, outcome |-> "raised" ]
    ELSE IF acc.all_data # <<>>
    THEN [ session_state |-> store_df_all(state, concat(acc.all_data)),
           all_data |-> acc.all_data,
           messages |-> acc.messages, outcome |-> "done" ]
    ELSE [ session_state |-> state, all_data |-> acc.all_data,
           messages |-> Append(acc.messages, PleaseUploadWarning),
           outcome |-> "done" ]

\* lines 102-106 on the loop's result acc
store_or_warn(state, acc) ==
    IF acc.propagated # NoException
    THEN [ session_state |-> state, all_data |-> acc.all_data,
           messages |-> acc.messages, outcome |-> "raised" ]
    ELSE IF acc.all_data # <<>>
    THEN [ session_state |-> store_df_all(state, concat(acc.all_data)),
           all_data |-> acc.all_data,
           messages |-> acc.messages, outcome |-> "done" ]
    ELSE [ session_state |-> state, all_data |-> acc.all_data,
           messages |-> Append(acc.messages, NoValidDataWarning),
           outcome |-> "done" ]

\* lines 95-108 for a click: the handler's effect on
\* [session_state, all_data, messages, outcome]
analyze_handler(files, state) ==
    IF files # <<>>
    THEN store_or_warn(state, loop_files([ all_data |-> <<>>, messages |-> <<>>,
                                           propagated |-> NoException ], files))
    ELSE [ session_state |-> state, all_data |-> <<>>,
           messages |-> << PleaseUploadWarning >>, outcome |-> "done" ]

----------------------------------------------------------------------------
(* Inputs.                                                                 *)

SeqsUpTo(S, n) == UNION { [ 1..k -> S ] : k \in 0..n }

Row(connect, disconnect, final, original, calling, number) ==
    [ dateTimeConnect |-> connect, dateTimeDisconnect |-> disconnect,
      finalCalledPartyNumberPartition |-> final,
      originalCalledPartyNumberPartition |-> original,
      callingPartyNumberPartition |-> calling,
      callingPartyNumber |-> number ]

PlainHeader == { << FALSE, c >> : c \in RequiredColumns }
PaddedHeader == { << TRUE, c >> : c \in RequiredColumns }
HeaderWithout(c) == { h \in PlainHeader : h[2] # c }

Workbook(name, rows) ==
    [ name |-> name, workbook |-> "ok", header |-> PlainHeader, rows |-> rows ]

FileNames == { "a.xlsx", "b.xlsx" }

\* 2023-11-01 00:05:00 UTC, ten minutes after 2023-10-31 23:55:00, and the
\* disconnect time of the specification's scenario
DisconnectTimes == { 1698797100, 1700000600 }
\* not captured; 2023-11-01 00:00:00; 2023-11-01 00:10:00 (after the first disconnect)
ConnectTimes == { 0, 1698796800, 1698797400 }

\* every callingPartyNumber text of at most MaxLen characters over three
\* digits and a non-digit; the empty one is the missing cell
NumberTexts == SeqsUpTo({ "7", "8", "9", "+" }, MaxLen)

WideRows ==
    { Row(c, d, f, o, g, n) :
        c \in ConnectTimes, d \in DisconnectTimes,
        f \in { NaN, "Mobile" }, o \in { NaN, "Intl" }, g \in { NaN, "Internal" },
        n \in NumberTexts }

\* the rows of the multi-file inputs: two directory extensions and a stranger
BatchRows ==
    { Row(1698796800, 1698797100, "Intl", NaN, NaN, n) :
        n \in { <<"7","7","7","3">>, <<"7","7","8","9">>, <<"9","9","9","9">> } }

SampleRows == << Row(1698796800, 1698797100, "Intl", NaN, NaN, <<"7","7","7","3">>) >>

\* uploads that are no readable "Raw Data" sheet with all columns, and one
\* whose headers carry surrounding blanks; each holds a row that would survive
SpecialFiles(name) ==
    { [ name |-> name, workbook |-> w, header |-> PlainHeader, rows |-> SampleRows ] :
        w \in { "not_a_workbook", "no_raw_data_sheet" } }
    \cup { [ name |-> name, workbook |-> "ok", header |-> HeaderWithout(c),
             rows |-> SampleRows ] : c \in RequiredColumns }
    \cup { [ name |-> name, workbook |-> "ok", header |-> PaddedHeader,
             rows |-> SampleRows ] }

\* what one uploaded file may hold, its name left open
BatchContents ==
    { Workbook("", rows) : rows \in SeqsUpTo(BatchRows, MaxRows) } \cup SpecialFiles("")

\* the name of the i-th file of a multi-file upload
UploadName(i) == << "a.xlsx", "b.xlsx", "c.xlsx", "d.xlsx" >>[((i - 1) % 4) + 1]

\* every upload of at most MaxFiles such files, named by position
BatchUploads ==
    { [ i \in DOMAIN u |-> [ u[i] EXCEPT !.name = UploadName(i) ] ] :
        u \in SeqsUpTo(BatchContents, MaxFiles) }

RowUploads == { << Workbook("a.xlsx", << r >>) >> : r \in WideRows }

\* the uploads of the session: sheets of one row, known or unknown
\* extension, and a workbook without the sheet
SessionFiles ==
    UNION { { Workbook(name, << r >>) :
                r \in { Row(1698796800, 1698797100, "Intl", NaN, NaN, n) :
                          n \in { <<"7","7","7","3">>, <<"9","9","9","9">> } } }
            \cup { [ name |-> name, workbook |-> "no_raw_data_sheet",
                     header |-> PlainHeader, rows |-> SampleRows ] } : name \in FileNames }

SessionUploads == SeqsUpTo(SessionFiles, MaxFiles)

----------------------------------------------------------------------------
(* The session.                                                            *)

EmptySessionState == [ k \in {} |-> <<>> ]

FreshRun(files) ==
    /\ uploaded_files = files
    /\ session_state = EmptySessionState
    /\ all_data = <<>>
    /\ messages = <<>>
    /\ outcome = "idle"

\* a new session: nothing uploaded, nothing stored
Init == FreshRun(<<>>)

\* the user changes the uploader's selection: the script reruns with the
\* button unpressed, so lines 96-108 do not run
Upload ==
    /\ \E files \in SessionUploads : uploaded_files' = files
    /\ all_data' = <<>>
    /\ messages' = <<>>
    /\ outcome' = "idle"
    /\ UNCHANGED session_state

\* the user presses "Analyze": the script reruns with the button pressed
Rerun(r) ==
    /\ session_state' = r.session_state
    /\ all_data' = r.all_data
    /\ messages' = r.messages
    /\ outcome' = r.outcome
    /\ UNCHANGED uploaded_files

Analyze == Rerun(analyze_handler(uploaded_files, session_state))

Next == Upload \/ Analyze

Spec == Init /\ [][Next]_vars

\* one Analyze over every upload of at most MaxFiles files of at most MaxRows rows
InitBatch == \E files \in BatchUploads : FreshRun(files)
NextBatch == Analyze
SpecBatch == InitBatch /\ [][NextBatch]_vars

\* one Analyze over every single row of the wide row set
InitRow == \E files \in RowUploads : FreshRun(files)
NextRow == Analyze
SpecRow == InitRow /\ [][NextRow]_vars

----------------------------------------------------------------------------
(* What the properties speak of, stated on the inputs.                     *)

\* the script run was a click on "Analyze"
Clicked == outcome # "idle"

HasDataset == "df_all" \in DOMAIN session_state

\* the canonical dataset the display section reads (lines 111-112)
Dataset == IF HasDataset THEN session_state["df_all"] ELSE <<>>

\* the workbook opens, has the sheet and every column the pipeline reads
Readable(file) ==
    /\ file.workbook = "ok"
    /\ \A c \in RequiredColumns : \E h \in file.header : h[2] = c

\* the first non-missing partition in the fixed priority order
FirstPartition(row) ==
    IF row.finalCalledPartyNumberPartition # NaN
    THEN row.finalCalledPartyNumberPartition
    ELSE IF row.originalCalledPartyNumberPartition # NaN
    THEN row.originalCalledPartyNumberPartition
    ELSE row.callingPartyNumberPartition

\* the extension the pipeline reads out of a row's callingPartyNumber
RowExtension(row) == str_extract(astype_str(row.callingPartyNumber))

InDirectory(ext) == \E p \in ExtensionPairs : p[1] = ext

RowSurvives(row) == FirstPartition(row) # NaN /\ InDirectory(RowExtension(row))

\* <<i, j>> for every surviving row j of file i, in sheet order
SurvivorsOf(files, i) ==
    LET alive(p) == RowSurvives(files[i].rows[p[2]])
    IN  IF Readable(files[i])
        THEN SelectSeq([ j \in 1..Len(files[i].rows) |-> << i, j >> ], alive)
        ELSE <<>>

\* the surviving rows of an upload, file by file
RECURSIVE SurvivorsFrom(_, _)
SurvivorsFrom(files, i) ==
    IF i > Len(files) THEN <<>>
    ELSE SurvivorsOf(files, i) \o SurvivorsFrom(files, i + 1)

Survivors(files) == SurvivorsFrom(files, 1)

\* a file that gives no row: it cannot be read, or no row of it survives
ZeroYield(files, i) == SurvivorsOf(files, i) = <<>>

\* record rec is the record of row j of file i
RecordOf(rec, files, p) ==
    /\ rec.source_file = files[p[1]].name
    /\ rec.Extension = RowExtension(files[p[1]].rows[p[2]])
    /\ rec.Call_Category = FirstPartition(files[p[1]].rows[p[2]])
    /\ rec.Disconnect_Time_Unix = files[p[1]].rows[p[2]].dateTimeDisconnect

\* dataset D is, record by record, the surviving rows of the upload
DatasetOf(D, files) ==
    /\ Len(D) = Len(Survivors(files))
    /\ \A k \in 1..Len(D) : RecordOf(D[k], files, Survivors(files)[k])

Without(files, i) == SubSeq(files, 1, i - 1) \o SubSeq(files, i + 1, Len(files))

Warnings == LET warning(m) == m.level = "warning" IN SelectSeq(messages, warning)

\* the signal names the file
Names(m, name) == m.text = name \/ name \in m.detail.arg

----------------------------------------------------------------------------
(* C3: a file that cannot be read (no workbook, no "Raw Data" sheet, a     *)
(* column missing) or that has no usable row gives no row and does not     *)
(* abort the click; the frames of the other files, before and after it,    *)
(* are those of the same upload without that file.                         *)
C3_FailureIsolation ==
    Clicked =>
        /\ outcome = "done"
        /\ \A i \in 1..Len(uploaded_files) :
              ZeroYield(uploaded_files, i) =>
                  all_data = analyze_handler(Without(uploaded_files, i),
                                             EmptySessionState).all_data

C3_Witness ==
    /\ outcome = "done"
    /\ Len(uploaded_files) = 2
    /\ uploaded_files[1].workbook = "no_raw_data_sheet"
    /\ Len(Dataset) = 2
    /\ Dataset[1].source_file = uploaded_files[2].name

(* C6: the stored dataset is the per-file batches in upload order, rows in *)
(* sheet order, each record carrying its file's name, nothing merged: k    *)
(* occurrences of a surviving call give k records.                         *)
C6_AssemblyOrder ==
    outcome = "done" =>
        /\ (all_data # <<>>) = (Survivors(uploaded_files) # <<>>)
        /\ all_data # <<>> => HasDataset /\ DatasetOf(Dataset, uploaded_files)

C6_Witness ==
    /\ outcome = "done"
    /\ Len(uploaded_files) = 2
    /\ Len(uploaded_files[1].rows) = 2
    /\ uploaded_files[1].rows[1] = uploaded_files[1].rows[2]
    /\ Len(Dataset) = 3
    /\ Dataset[1] = Dataset[2]
    /\ Dataset[1].source_file = "a.xlsx"
    /\ Dataset[3].source_file = "b.xlsx"
    /\ Dataset[3].Extension # Dataset[1].Extension

(* C8: every file that gives no row, unparsable or filtered empty, has a   *)
(* signal naming it.                                                       *)
C8_SignalPerFile ==
    Clicked =>
        \A i \in 1..Len(uploaded_files) :
            ZeroYield(uploaded_files, i) =>
                \E k \in 1..Len(messages) : Names(messages[k], uploaded_files[i].name)

(* C9: a click over files of which no row survives ends without an         *)
(* exception and warns once, with another warning than a click without     *)
(* files; a click that stores records gives neither warning.               *)
C9_EmptyResultWarning ==
    Clicked =>
        /\ outcome = "done"
        /\ NoValidDataWarning # PleaseUploadWarning
        /\ (uploaded_files # <<>> /\ Survivors(uploaded_files) = <<>>)
              => Warnings = << NoValidDataWarning >>
        /\ uploaded_files = <<>> => Warnings = << PleaseUploadWarning >>
        /\ all_data # <<>> => Warnings = <<>> /\ Len(Dataset) >= 1

C9_Witness ==
    /\ outcome = "done"
    /\ Len(uploaded_files) = 2
    /\ Readable(uploaded_files[1])
    /\ Len(uploaded_files[1].rows) = 2
    /\ ~Readable(uploaded_files[2])
    /\ Warnings = << NoValidDataWarning >>
    /\ Len(messages) = 2

----------------------------------------------------------------------------
(* Properties of one row (SpecRow: one sheet of one row).                  *)

InputRow == uploaded_files[1].rows[1]

(* C1: every record of the dataset has an extension of the directory and   *)
(* the directory's user for it; a row whose extracted extension is not in  *)
(* the directory, or that has none, gives no record.                       *)
C1_DirectoryFilter ==
    /\ \A k \in 1..Len(Dataset) :
          << Dataset[k].Extension, Dataset[k].User >> \in ExtensionPairs
    /\ outcome = "done" =>
          /\ ~InDirectory(RowExtension(InputRow)) => Dataset = <<>>
          /\ \A k \in 1..Len(Dataset) : Dataset[k].Extension = RowExtension(InputRow)

C1_Witness ==
    /\ outcome = "done"
    /\ Len(InputRow.callingPartyNumber) > 4
    /\ Len(Dataset) = 1
    /\ Dataset[1].User = "PF"

(* C4: a row with connect time 0 and disconnect time D comes out with      *)
(* connect time D - 600 and a duration of 600 s, its date, month and       *)
(* weekday those of D - 600 and not of 0; any other connect time is kept.  *)
C4_ConnectRepair ==
    outcome = "done" =>
        \A k \in 1..Len(Dataset) :
            /\ InputRow.dateTimeConnect = 0 =>
                  /\ Dataset[k].Connect_Time_Unix = InputRow.dateTimeDisconnect - 600
                  /\ Dataset[k].Call_Duration_s = 600
                  /\ Dataset[k].Date = to_datetime(InputRow.dateTimeDisconnect - 600)
                  /\ Dataset[k].Date # to_datetime(0)
                  /\ Dataset[k].Month =
                        to_period_M(to_datetime(InputRow.dateTimeDisconnect - 600))
                  /\ Dataset[k].Weekday =
                        day_name(to_datetime(InputRow.dateTimeDisconnect - 600))
            /\ InputRow.dateTimeConnect # 0 =>
                  Dataset[k].Connect_Time_Unix = InputRow.dateTimeConnect

\* 2023-11-01 00:05:00 with no connect time: 2023-10-31 23:55:00, a Tuesday
C4_Witness ==
    /\ outcome = "done"
    /\ InputRow.dateTimeConnect = 0
    /\ InputRow.dateTimeDisconnect = 1698797100
    /\ Len(Dataset) = 1
    /\ Dataset[1].Connect_Time_Unix = 1698796500
    /\ Dataset[1].Date.day = 31 /\ Dataset[1].Date.hour = 23 /\ Dataset[1].Date.minute = 55
    /\ Dataset[1].Month = << 2023, 10 >>
    /\ Dataset[1].Weekday = "Tuesday"

(* C5: the call category is the first non-missing of the final, original   *)
(* and calling partition, unchanged; apart from the directory filter a row *)
(* is dropped exactly when all three are missing; no record's category is  *)
(* missing.                                                                *)
C5_PartitionPriority ==
    outcome = "done" =>
        /\ InDirectory(RowExtension(InputRow)) =>
              ((Dataset = <<>>) <=>
                  /\ InputRow.finalCalledPartyNumberPartition = NaN
                  /\ InputRow.originalCalledPartyNumberPartition = NaN
                  /\ InputRow.callingPartyNumberPartition = NaN)
        /\ \A k \in 1..Len(Dataset) :
              /\ Dataset[k].Call_Category = FirstPartition(InputRow)
              /\ Dataset[k].Call_Category # NaN

C5_Witness ==
    /\ outcome = "done"
    /\ InputRow.finalCalledPartyNumberPartition = NaN
    /\ InputRow.originalCalledPartyNumberPartition = "Intl"
    /\ InputRow.callingPartyNumberPartition = "Internal"
    /\ Len(Dataset) = 1
    /\ Dataset[1].Call_Category = "Intl"

(* C7 as stated: every record has disconnect >= connect and a duration     *)
(* disconnect - connect that is >= 0, whatever the input row.              *)
C7_NonNegativeDuration ==
    \A k \in 1..Len(Dataset) :
        /\ Dataset[k].Disconnect_Time_Unix >= Dataset[k].Connect_Time_Unix
        /\ Dataset[k].Call_Duration_s =
              Dataset[k].Disconnect_Time_Unix - Dataset[k].Connect_Time_Unix
        /\ Dataset[k].Call_Duration_s >= 0

(* C7 amended: every record's duration is its disconnect time minus its    *)
(* repaired connect time; it is >= 0 exactly when the row's connect time   *)
(* is 0 or not after its disconnect time, and a row whose disconnect time  *)
(* is before a non-zero connect time is kept with its negative duration.   *)
C7_DurationIsDifference ==
    outcome = "done" =>
        /\ InDirectory(RowExtension(InputRow)) /\ FirstPartition(InputRow) # NaN
              => Len(Dataset) = 1
        /\ \A k \in 1..Len(Dataset) :
              /\ Dataset[k].Disconnect_Time_Unix = InputRow.dateTimeDisconnect
              /\ Dataset[k].Call_Duration_s =
                    Dataset[k].Disconnect_Time_Unix - Dataset[k].Connect_Time_Unix
              /\ (Dataset[k].Call_Duration_s >= 0) <=>
                    \/ InputRow.dateTimeConnect = 0
                    \/ InputRow.dateTimeDisconnect >= InputRow.dateTimeConnect

C7_Witness ==
    /\ outcome = "done"
    /\ InputRow.dateTimeConnect = 1698797400
    /\ InputRow.dateTimeDisconnect = 1698797100
    /\ Len(Dataset) = 1
    /\ Dataset[1].Call_Duration_s = -300

\* the first maximal run of digits of s that is exactly four digits long
FirstRunOfExactlyFour(s) ==
    LET runs == { i \in 1..(Len(s) - 3) :
                    /\ \A k \in 0..3 : s[i + k] \in Digits
                    /\ i = 1 \/ s[i - 1] \notin Digits
                    /\ i + 4 > Len(s) \/ s[i + 4] \notin Digits }
    IN  IF runs = {} THEN NoText
        ELSE LET i == CHOOSE a \in runs : \A b \in runs : a <= b
             IN  SubSeq(s, i, i + 3)

(* C10: the extension is the first run of exactly four digits of the raw   *)
(* callingPartyNumber; a value without such a run gives no record, a value *)
(* with a directory extension as that run gives a record for it.           *)
C10_FirstRunOfExactlyFour ==
    outcome = "done" /\ FirstPartition(InputRow) # NaN =>
        /\ (Dataset # <<>>) <=>
              InDirectory(FirstRunOfExactlyFour(astype_str(InputRow.callingPartyNumber)))
        /\ \A k \in 1..Len(Dataset) :
              Dataset[k].Extension =
                 FirstRunOfExactlyFour(astype_str(InputRow.callingPartyNumber))

----------------------------------------------------------------------------
(* Properties of the session (Spec).                                       *)

(* C2: after every click the dataset of the session is exactly the records *)
(* of the files of that click, whether it gave rows, no row, or had no     *)
(* file.                                                                   *)
C2_RebuiltEveryAnalyze ==
    outcome = "done" => DatasetOf(Dataset, uploaded_files)

====
